---- MODULE Spec2Model ----
(***************************************************************************)
(* TCP transport of nanomsg: the TCP option set (nn_tcp_optset and its     *)
(* setopt/getopt/destroy) and the propagation of the endpoint's options to *)
(* the live OS socket (nn_tcp_set_options), from src/transports/tcp/tcp.c. *)
(*                                                                         *)
(* Option values travel as byte buffers (const void *optval, size_t        *)
(* optvallen); an int is four bytes in the byte order of the machine.      *)
(***************************************************************************)
EXTENDS Integers, Sequences, FiniteSets

(***************************************************************************)
(* Bounds of the model.                                                    *)
(***************************************************************************)
\* Callers pass the ints -(MaxVal+1) .. MaxVal, 0x01020304 and INT_MIN.
MaxVal == 1
\* Buffer lengths and capacities handed to setopt and getopt: 0 .. MaxCap.
MaxCap == 5

(***************************************************************************)
(* Program constants.                                                      *)
(***************************************************************************)
SizeofInt == 4
EINVAL == 22
ENOPROTOOPT == 92

\* Option identifiers of the NN_TCP level; NN_OTHER stands for every
\* identifier that is none of the four cases of the switch statements.
KnownOptions ==
    {"NN_TCP_NODELAY", "NN_TCP_KEEPIDLE", "NN_TCP_KEEPINTVL", "NN_TCP_KEEPCNT"}
Options == KnownOptions \cup {"NN_OTHER"}

\* The OS knobs whose presence is tested with #if defined.
Knobs ==
    {"SO_KEEPALIVE", "TCP_NODELAY", "TCP_KEEPIDLE", "TCP_KEEPINTVL", "TCP_KEEPCNT"}

\* Values a caller may encode into optval.
InputVals == ((0 - MaxVal - 1) .. MaxVal) \cup {16909060, 0 - 2147483647 - 1}
\* The generic (NN_SOL_SOCKET) options of an endpoint, owned by the socket.
GenericStores ==
    [sndbuf : {4096, 131072}, rcvbuf : {8192}, keepalive : {0, 1}]

VARIABLES
    bigEndian,  \* byte order of the machine
    optset,     \* the struct nn_tcp_optset: alive, nodelay, keepidle, keepintvl, keepcnt
    call,       \* the last operation and its arguments
    rc,         \* its return value
    outval,     \* the destination buffer after nn_tcp_optset_getopt
    outlen,     \* *optvallen after nn_tcp_optset_getopt
    calls,      \* the nn_usock_setsockopt calls of the last nn_tcp_set_options
    hist        \* history: what the setopt calls since creation returned

vars == <<bigEndian, optset, call, rc, outval, outlen, calls, hist>>

(***************************************************************************)
(* The representation of an int in memory: 32 bits, two's complement.      *)
(***************************************************************************)
LittleEndianBytes(v) ==
    LET b0 == v % 256
        v1 == (v - b0) \div 256
        b1 == v1 % 256
        v2 == (v1 - b1) \div 256
        b2 == v2 % 256
        v3 == (v2 - b2) \div 256
        b3 == v3 % 256
    IN  <<b0, b1, b2, b3>>

Reverse(s) == [i \in 1..Len(s) |-> s[Len(s) + 1 - i]]

\* &intval: the bytes of an int object
IntBytes(v) ==
    IF bigEndian THEN Reverse(LittleEndianBytes(v)) ELSE LittleEndianBytes(v)

\* *(int*) optval: the int whose object the first four bytes are
BytesInt(b) ==
    LET le  == IF bigEndian THEN Reverse(SubSeq(b, 1, 4)) ELSE SubSeq(b, 1, 4)
        top == IF le[4] >= 128 THEN le[4] - 256 ELSE le[4]
    IN  ((top * 256 + le[3]) * 256 + le[2]) * 256 + le[1]

\* memcpy (dst, src, n)
memcpy(dst, src, n) ==
    [i \in 1..Len(dst) |-> IF i <= n THEN src[i] ELSE dst[i]]

\* Memory nobody has written yet: n bytes 0xAA, a byte no value used here has.
Garbage(n) == [i \in 1..n |-> 170]

(***************************************************************************)
(* The option set.                                                         *)
(***************************************************************************)
\* nn_tcp_optset with the assignment to keepcnt forgotten
nn_tcp_optset_keepcnt_unset(chunk) ==
    [chunk EXCEPT !.alive = TRUE,
                  !.nodelay = 0,
                  !.keepidle = -1,
                  !.keepintvl = -1]

\* nn_tcp_optset: chunk is the memory nn_alloc returned, with whatever it held
nn_tcp_optset(chunk) ==
    [chunk EXCEPT !.alive = TRUE,
                  !.nodelay = 0,
                  !.keepidle = -1,
                  !.keepintvl = -1,
                  !.keepcnt = -1]

\* nn_tcp_optset_destroy: the memory is freed, its content stays behind
nn_tcp_optset_destroy(self) == [self EXCEPT !.alive = FALSE]

\* case NN_TCP_NODELAY of nn_tcp_optset_setopt
case_NN_TCP_NODELAY(self, val) ==
    IF val # 0 /\ val # 1
    THEN [rc |-> 0 - EINVAL, optset |-> self]
    ELSE [rc |-> 0, optset |-> [self EXCEPT !.nodelay = val]]

\* case NN_TCP_KEEPIDLE with the test val < 0 in place of val <= 0
case_NN_TCP_KEEPIDLE_zero_passes(self, val) ==
    IF val < 0
    THEN [rc |-> 0 - EINVAL, optset |-> self]
    ELSE [rc |-> 0, optset |-> [self EXCEPT !.keepidle = val]]

\* case NN_TCP_KEEPIDLE of nn_tcp_optset_setopt
case_NN_TCP_KEEPIDLE(self, val) ==
    IF val <= 0
    THEN [rc |-> 0 - EINVAL, optset |-> self]
    ELSE [rc |-> 0, optset |-> [self EXCEPT !.keepidle = val]]

\* case NN_TCP_KEEPINTVL storing into the field of the case above it
case_NN_TCP_KEEPINTVL_into_keepidle(self, val) ==
    IF val <= 0
    THEN [rc |-> 0 - EINVAL, optset |-> self]
    ELSE [rc |-> 0, optset |-> [self EXCEPT !.keepidle = val]]

\* case NN_TCP_KEEPINTVL of nn_tcp_optset_setopt
case_NN_TCP_KEEPINTVL(self, val) ==
    IF val <= 0
    THEN [rc |-> 0 - EINVAL, optset |-> self]
    ELSE [rc |-> 0, optset |-> [self EXCEPT !.keepintvl = val]]

\* case NN_TCP_KEEPCNT with the test val == 0 in place of val <= 0
case_NN_TCP_KEEPCNT_negative_passes(self, val) ==
    IF val = 0
    THEN [rc |-> 0 - EINVAL, optset |-> self]
    ELSE [rc |-> 0, optset |-> [self EXCEPT !.keepcnt = val]]

\* case NN_TCP_KEEPCNT of nn_tcp_optset_setopt
case_NN_TCP_KEEPCNT(self, val) ==
    IF val <= 0
    THEN [rc |-> 0 - EINVAL, optset |-> self]
    ELSE [rc |-> 0, optset |-> [self EXCEPT !.keepcnt = val]]

\* nn_tcp_optset_setopt with the length tested inside the cases, after the
\* switch on the identifier
nn_tcp_optset_setopt_switch_first(self, option, optval, optvallen) ==
    IF option \notin KnownOptions
    THEN [rc |-> 0 - ENOPROTOOPT, optset |-> self]
    ELSE IF optvallen # SizeofInt
    THEN [rc |-> 0 - EINVAL, optset |-> self]
    ELSE LET val == BytesInt(optval) IN
         CASE option = "NN_TCP_NODELAY" -> case_NN_TCP_NODELAY(self, val)
           [] option = "NN_TCP_KEEPIDLE" -> case_NN_TCP_KEEPIDLE(self, val)
           [] option = "NN_TCP_KEEPINTVL" -> case_NN_TCP_KEEPINTVL(self, val)
           [] option = "NN_TCP_KEEPCNT" -> case_NN_TCP_KEEPCNT(self, val)

\* nn_tcp_optset_setopt: the return value and the option set after the call
nn_tcp_optset_setopt(self, option, optval, optvallen) ==
    IF optvallen # SizeofInt
    THEN [rc |-> 0 - EINVAL, optset |-> self]
    ELSE LET val == BytesInt(optval) IN
         CASE option = "NN_TCP_NODELAY" -> case_NN_TCP_NODELAY(self, val)
           [] option = "NN_TCP_KEEPIDLE" -> case_NN_TCP_KEEPIDLE(self, val)
           [] option = "NN_TCP_KEEPINTVL" -> case_NN_TCP_KEEPINTVL(self, val)
           [] option = "NN_TCP_KEEPCNT" -> case_NN_TCP_KEEPCNT(self, val)
           [] OTHER -> [rc |-> 0 - ENOPROTOOPT, optset |-> self]

\* nn_tcp_optset_getopt setting *optvallen before the switch
nn_tcp_optset_getopt_size_on_error(self, option, optval, optvallen) ==
    IF option \notin KnownOptions
    THEN [rc |-> 0 - ENOPROTOOPT, optval |-> optval, optvallen |-> SizeofInt]
    ELSE LET intval ==
                 CASE option = "NN_TCP_NODELAY" -> self.nodelay
                   [] option = "NN_TCP_KEEPIDLE" -> self.keepidle
                   [] option = "NN_TCP_KEEPINTVL" -> self.keepintvl
                   [] option = "NN_TCP_KEEPCNT" -> self.keepcnt
         IN  [rc |-> 0,
              optval |-> memcpy(optval, IntBytes(intval),
                           IF optvallen < SizeofInt THEN optvallen ELSE SizeofInt),
              optvallen |-> SizeofInt]

\* nn_tcp_optset_getopt reporting the number of bytes it copied
nn_tcp_optset_getopt_copied_size(self, option, optval, optvallen) ==
    IF option \notin KnownOptions
    THEN [rc |-> 0 - ENOPROTOOPT, optval |-> optval, optvallen |-> optvallen]
    ELSE LET intval ==
                 CASE option = "NN_TCP_NODELAY" -> self.nodelay
                   [] option = "NN_TCP_KEEPIDLE" -> self.keepidle
                   [] option = "NN_TCP_KEEPINTVL" -> self.keepintvl
                   [] option = "NN_TCP_KEEPCNT" -> self.keepcnt
         IN  [rc |-> 0,
              optval |-> memcpy(optval, IntBytes(intval),
                           IF optvallen < SizeofInt THEN optvallen ELSE SizeofInt),
              optvallen |-> IF optvallen < SizeofInt THEN optvallen
                            ELSE SizeofInt]

\* nn_tcp_optset_getopt: the return value, the destination and *optvallen
\* after the call
nn_tcp_optset_getopt(self, option, optval, optvallen) ==
    IF option \notin KnownOptions
    THEN [rc |-> 0 - ENOPROTOOPT, optval |-> optval, optvallen |-> optvallen]
    ELSE LET intval ==
                 CASE option = "NN_TCP_NODELAY" -> self.nodelay
                   [] option = "NN_TCP_KEEPIDLE" -> self.keepidle
                   [] option = "NN_TCP_KEEPINTVL" -> self.keepintvl
                   [] option = "NN_TCP_KEEPCNT" -> self.keepcnt
         IN  [rc |-> 0,
              optval |-> memcpy(optval, IntBytes(intval),
                           IF optvallen < SizeofInt THEN optvallen ELSE SizeofInt),
              optvallen |-> SizeofInt]

(***************************************************************************)
(* The propagation of the options to the live socket.                      *)
(***************************************************************************)
\* nn_epbase_getopt: the endpoint's option store. The generic options are
\* the socket's; the NN_TCP level is answered by the TCP option set.
nn_epbase_getopt(source, level, option, optval, optvallen) ==
    IF level = "NN_SOL_SOCKET"
    THEN LET intval ==
                 CASE option = "NN_SNDBUF" -> source.generic.sndbuf
                   [] option = "NN_RCVBUF" -> source.generic.rcvbuf
                   [] option = "NN_KEEPALIVE" -> source.generic.keepalive
         IN  [rc |-> 0,
              optval |-> memcpy(optval, IntBytes(intval),
                           IF optvallen < SizeofInt THEN optvallen ELSE SizeofInt),
              optvallen |-> SizeofInt]
    ELSE nn_tcp_optset_getopt(source.optset, option, optval, optvallen)

\* nn_usock_setsockopt: one OS-level set call on the socket
nn_usock_setsockopt(sock, level, optname, optval, optlen) ==
    Append(sock, [level |-> level, name |-> optname,
                  val |-> BytesInt(optval), len |-> optlen])

\* sz = sizeof (val); nn_epbase_getopt (...); nn_assert (sz == sizeof (val));
\* st holds the locals val (as its bytes) and sz, the socket, and whether an
\* assertion has aborted the run.
ReadOption(st, source, level, option) ==
    IF st.aborted THEN st
    ELSE LET r == nn_epbase_getopt(source, level, option, st.val, SizeofInt)
         IN  [st EXCEPT !.val = r.optval, !.sz = r.optvallen,
                        !.aborted = (r.optvallen # SizeofInt)]

\* nn_usock_setsockopt (sock, level, optname, &val, sizeof (val));
ApplyOption(st, level, optname) ==
    IF st.aborted THEN st
    ELSE [st EXCEPT !.sock =
              nn_usock_setsockopt(st.sock, level, optname, st.val, SizeofInt)]

\* The tuning blocks without the test of val, as the nodelay block is
TuneOption_untested(st, have, source, option, optname) ==
    IF optname \notin have THEN st
    ELSE ApplyOption(ReadOption(st, source, "NN_TCP", option),
                     "IPPROTO_TCP", optname)

\* The three blocks of the shape
\*   #if defined K / read / if(val >= 0) { set } / #endif
TuneOption(st, have, source, option, optname) ==
    IF optname \notin have THEN st
    ELSE LET r == ReadOption(st, source, "NN_TCP", option)
         IN  IF ~r.aborted /\ BytesInt(r.val) >= 0
             THEN ApplyOption(r, "IPPROTO_TCP", optname)
             ELSE r

\* The send buffer: read NN_SNDBUF, set SO_SNDBUF
SetSndbuf(st, source) ==
    ApplyOption(ReadOption(st, source, "NN_SOL_SOCKET", "NN_SNDBUF"),
                "SOL_SOCKET", "SO_SNDBUF")

\* The receive buffer: read NN_RCVBUF, set SO_RCVBUF
SetRcvbuf(st, source) ==
    ApplyOption(ReadOption(st, source, "NN_SOL_SOCKET", "NN_RCVBUF"),
                "SOL_SOCKET", "SO_RCVBUF")

\* The keep-alive block left out
SetKeepalive_left_out(st, have, source) == st

\* #if defined SO_KEEPALIVE: read NN_KEEPALIVE, set SO_KEEPALIVE
SetKeepalive(st, have, source) ==
    IF "SO_KEEPALIVE" \notin have THEN st
    ELSE ApplyOption(ReadOption(st, source, "NN_SOL_SOCKET", "NN_KEEPALIVE"),
                     "SOL_SOCKET", "SO_KEEPALIVE")

\* #if defined TCP_NODELAY: read NN_TCP_NODELAY, set TCP_NODELAY
SetNodelay(st, have, source) ==
    IF "TCP_NODELAY" \notin have THEN st
    ELSE ApplyOption(ReadOption(st, source, "NN_TCP", "NN_TCP_NODELAY"),
                     "IPPROTO_TCP", "TCP_NODELAY")

\* nn_tcp_set_options with the nodelay block ahead of the keep-alive block
nn_tcp_set_options_nodelay_first(have, source, val0) ==
    LET s0 == [val |-> val0, sz |-> 0, sock |-> <<>>, aborted |-> FALSE]
        s1 == SetSndbuf(s0, source)
        s2 == SetRcvbuf(s1, source)
        s3 == SetNodelay(s2, have, source)
        s4 == SetKeepalive(s3, have, source)
        s5 == TuneOption(s4, have, source, "NN_TCP_KEEPIDLE", "TCP_KEEPIDLE")
        s6 == TuneOption(s5, have, source, "NN_TCP_KEEPINTVL", "TCP_KEEPINTVL")
        s7 == TuneOption(s6, have, source, "NN_TCP_KEEPCNT", "TCP_KEEPCNT")
    IN  s7

\* nn_tcp_set_options on a build that defines the knobs in have; val0 is
\* what the uninitialised local val holds on entry.
nn_tcp_set_options(have, source, val0) ==
    LET s0 == [val |-> val0, sz |-> 0, sock |-> <<>>, aborted |-> FALSE]
        s1 == SetSndbuf(s0, source)
        s2 == SetRcvbuf(s1, source)
        s3 == SetKeepalive(s2, have, source)
        s4 == SetNodelay(s3, have, source)
        s5 == TuneOption(s4, have, source, "NN_TCP_KEEPIDLE", "TCP_KEEPIDLE")
        s6 == TuneOption(s5, have, source, "NN_TCP_KEEPINTVL", "TCP_KEEPINTVL")
        s7 == TuneOption(s6, have, source, "NN_TCP_KEEPCNT", "TCP_KEEPCNT")
    IN  s7

(***************************************************************************)
(* The state machine.                                                      *)
(***************************************************************************)
NoCall ==
    [op |-> "none", option |-> "NN_OTHER", val |-> 0, optval |-> <<>>,
     optvallen |-> 0, have |-> {},
     generic |-> [sndbuf |-> 0, rcvbuf |-> 0, keepalive |-> 0]]

NoHist ==
    [fresh |-> TRUE,
     ok |-> [o \in KnownOptions |-> [set |-> FALSE, val |-> 0]]]

\* The buffers a caller hands to setopt: an int, or a buffer of another
\* length holding the bytes of an int, cut or repeated.
SetoptInputs ==
    {[val |-> v, optval |-> IntBytes(v)] : v \in InputVals}
    \cup {[val |-> v, optval |-> SubSeq(IntBytes(v) \o IntBytes(v), 1, n)] :
             v \in {0, 1}, n \in (0..MaxCap) \ {SizeofInt}}

Init ==
    /\ bigEndian \in BOOLEAN
    /\ optset = [alive |-> FALSE,
                 nodelay |-> BytesInt(Garbage(SizeofInt)),
                 keepidle |-> BytesInt(Garbage(SizeofInt)),
                 keepintvl |-> BytesInt(Garbage(SizeofInt)),
                 keepcnt |-> BytesInt(Garbage(SizeofInt))]
    /\ call = NoCall
    /\ rc = 0
    /\ outval = <<>>
    /\ outlen = 0
    /\ calls = <<>>
    /\ hist = NoHist

\* The transport's optset factory makes the option set.
Create ==
    /\ call.op = "none"
    /\ ~optset.alive
    /\ optset' = nn_tcp_optset(optset)
    /\ call' = [NoCall EXCEPT !.op = "create"]
    /\ rc' = 0
    /\ outval' = <<>>
    /\ outlen' = 0
    /\ calls' = <<>>
    /\ hist' = NoHist
    /\ UNCHANGED bigEndian

\* The owner destroys the option set.
Destroy ==
    /\ call.op = "none"
    /\ optset.alive
    /\ optset' = nn_tcp_optset_destroy(optset)
    /\ call' = [NoCall EXCEPT !.op = "destroy"]
    /\ rc' = 0
    /\ outval' = <<>>
    /\ outlen' = 0
    /\ calls' = <<>>
    /\ UNCHANGED <<bigEndian, hist>>

\* A caller sets an option.
Setopt ==
    \E option \in Options, in \in SetoptInputs :
        LET r == nn_tcp_optset_setopt(optset, option, in.optval, Len(in.optval))
        IN  /\ call.op = "none"
            /\ optset.alive
            /\ optset' = r.optset
            /\ rc' = r.rc
            /\ call' = [NoCall EXCEPT !.op = "setopt", !.option = option,
                                      !.val = in.val, !.optval = in.optval,
                                      !.optvallen = Len(in.optval)]
            /\ hist' = [fresh |-> FALSE,
                        ok |-> IF r.rc = 0 /\ option \in KnownOptions
                               THEN [hist.ok EXCEPT ![option] =
                                        [set |-> TRUE, val |-> in.val]]
                               ELSE hist.ok]
            /\ outval' = <<>>
            /\ outlen' = 0
            /\ calls' = <<>>
            /\ UNCHANGED bigEndian

\* A caller reads an option into a destination of cap bytes.
Getopt ==
    \E option \in Options, cap \in 0..MaxCap :
        LET r == nn_tcp_optset_getopt(optset, option, Garbage(cap), cap)
        IN  /\ call.op = "none"
            /\ optset.alive
            /\ rc' = r.rc
            /\ outval' = r.optval
            /\ outlen' = r.optvallen
            /\ call' = [NoCall EXCEPT !.op = "getopt", !.option = option,
                                      !.optval = Garbage(cap), !.optvallen = cap]
            /\ calls' = <<>>
            /\ UNCHANGED <<bigEndian, optset, hist>>

\* The endpoint's socket becomes live, on a build with the knobs in have.
SetOptions ==
    \E have \in SUBSET Knobs, generic \in GenericStores :
        LET r == nn_tcp_set_options(have,
                     [generic |-> generic, optset |-> optset],
                     Garbage(SizeofInt))
        IN  /\ call.op = "none"
            /\ optset.alive
            /\ calls' = r.sock
            /\ rc' = IF r.aborted THEN 1 ELSE 0
            /\ call' = [NoCall EXCEPT !.op = "set_options", !.have = have,
                                      !.generic = generic]
            /\ outval' = <<>>
            /\ outlen' = 0
            /\ UNCHANGED <<bigEndian, optset, hist>>

\* The call is over: the caller drops its arguments and results.
Return ==
    /\ call.op # "none"
    /\ call' = NoCall
    /\ rc' = 0
    /\ outval' = <<>>
    /\ outlen' = 0
    /\ calls' = <<>>
    /\ UNCHANGED <<bigEndian, optset, hist>>

Next == Create \/ Destroy \/ Setopt \/ Getopt \/ SetOptions \/ Return

Spec == Init /\ [][Next]_vars

(***************************************************************************)
(* What the properties below speak of.                                     *)
(***************************************************************************)
Min(a, b) == IF a < b THEN a ELSE b

\* The stored field an option identifier names.
Field(os, option) ==
    CASE option = "NN_TCP_NODELAY" -> os.nodelay
      [] option = "NN_TCP_KEEPIDLE" -> os.keepidle
      [] option = "NN_TCP_KEEPINTVL" -> os.keepintvl
      [] option = "NN_TCP_KEEPCNT" -> os.keepcnt

\* The option set with the field an identifier names replaced.
WithField(os, option, v) ==
    CASE option = "NN_TCP_NODELAY" -> [os EXCEPT !.nodelay = v]
      [] option = "NN_TCP_KEEPIDLE" -> [os EXCEPT !.keepidle = v]
      [] option = "NN_TCP_KEEPINTVL" -> [os EXCEPT !.keepintvl = v]
      [] option = "NN_TCP_KEEPCNT" -> [os EXCEPT !.keepcnt = v]

TuningOptions == {"NN_TCP_KEEPIDLE", "NN_TCP_KEEPINTVL", "NN_TCP_KEEPCNT"}

InDomain(option, v) ==
    IF option = "NN_TCP_NODELAY" THEN v \in {0, 1} ELSE v > 0

DefaultOf(option) == IF option = "NN_TCP_NODELAY" THEN 0 ELSE -1

\* The order of the OS-level set calls.
ApplyOrder ==
    <<"SO_SNDBUF", "SO_RCVBUF", "SO_KEEPALIVE", "TCP_NODELAY",
      "TCP_KEEPIDLE", "TCP_KEEPINTVL", "TCP_KEEPCNT">>

OrderPos(name) == CHOOSE k \in 1..Len(ApplyOrder) : ApplyOrder[k] = name

\* The level an OS option belongs to, and the value the endpoint's option
\* store holds for it during the last nn_tcp_set_options.
LevelOf(name) ==
    IF name \in {"SO_SNDBUF", "SO_RCVBUF", "SO_KEEPALIVE"}
    THEN "SOL_SOCKET" ELSE "IPPROTO_TCP"

StoreValue(name) ==
    CASE name = "SO_SNDBUF" -> call.generic.sndbuf
      [] name = "SO_RCVBUF" -> call.generic.rcvbuf
      [] name = "SO_KEEPALIVE" -> call.generic.keepalive
      [] name = "TCP_NODELAY" -> optset.nodelay
      [] name = "TCP_KEEPIDLE" -> optset.keepidle
      [] name = "TCP_KEEPINTVL" -> optset.keepintvl
      [] name = "TCP_KEEPCNT" -> optset.keepcnt

CallNames == {calls[i].name : i \in 1..Len(calls)}

Names(cs) == [i \in 1..Len(cs) |-> cs[i].name]

(***************************************************************************)
(* The propagation.                                                        *)
(***************************************************************************)
\* C1: one run of nn_tcp_set_options issues its OS-level set calls in the
\* order send buffer, receive buffer, keep-alive, nodelay, keepidle,
\* keepintvl, keepcnt: the calls issued are a subsequence of that order,
\* no option is applied twice, and every call carries, at its own level and
\* with the width of an int, the value the option store holds for that
\* very option.
C1_FixedOrder ==
    call.op = "set_options" =>
        /\ rc = 0
        /\ \A i, j \in 1..Len(calls) :
               i < j => OrderPos(calls[i].name) < OrderPos(calls[j].name)
        /\ \A i \in 1..Len(calls) :
               /\ calls[i].name \in {ApplyOrder[k] : k \in 1..Len(ApplyOrder)}
               /\ calls[i].level = LevelOf(calls[i].name)
               /\ calls[i].val = StoreValue(calls[i].name)
               /\ calls[i].len = SizeofInt

\* All seven calls are issued: every knob is there, every tuning field set.
C1_Witness ==
    /\ call.op = "set_options"
    /\ Names(calls) = ApplyOrder
    /\ call.generic.sndbuf # call.generic.rcvbuf
    /\ optset.keepidle # optset.keepintvl

\* C2: for each of keepidle, keepintvl and keepcnt, the set call for that
\* knob is issued if and only if the build has the knob and the stored
\* value is not -1, whatever the other knobs and values are.
C2_TuningApplied ==
    call.op = "set_options" =>
        \A name \in {"TCP_KEEPIDLE", "TCP_KEEPINTVL", "TCP_KEEPCNT"} :
            (name \in CallNames) <=>
                (name \in call.have /\ StoreValue(name) # -1)

\* The build lacks TCP_KEEPIDLE, keepidle and keepintvl are positive: no
\* call for keepidle, and the call for keepintvl is made.
C2_Witness ==
    /\ call.op = "set_options"
    /\ "TCP_KEEPIDLE" \notin call.have
    /\ optset.keepidle > 0
    /\ optset.keepintvl > 0
    /\ "TCP_KEEPIDLE" \notin CallNames
    /\ "TCP_KEEPINTVL" \in CallNames
    /\ optset.keepcnt = -1
    /\ "TCP_KEEPCNT" \in call.have
    /\ "TCP_KEEPCNT" \notin CallNames

\* The endpoint of the end-to-end case: send buffer 4096, receive buffer
\* 8192, nodelay 1, the tuning fields at -1.
C3_Case ==
    /\ call.op = "set_options"
    /\ call.generic.sndbuf = 4096
    /\ call.generic.rcvbuf = 8192
    /\ optset.nodelay = 1
    /\ optset.keepidle = -1
    /\ optset.keepintvl = -1
    /\ optset.keepcnt = -1

\* C3 as stated: on that endpoint, on a build that has the nodelay knob,
\* exactly three set calls are issued: send buffer, receive buffer, nodelay.
C3_ExactlyThreeCalls ==
    (C3_Case /\ "TCP_NODELAY" \in call.have) =>
        /\ Len(calls) = 3
        /\ Names(calls) = <<"SO_SNDBUF", "SO_RCVBUF", "TCP_NODELAY">>

\* C3 amended: on that endpoint the calls are the send buffer (4096), the
\* receive buffer (8192), then the keep-alive flag if the build has
\* SO_KEEPALIVE, then nodelay (1) if the build has TCP_NODELAY, and no call
\* for a tuning knob: 2 calls plus one for each of these two knobs.
C3_BuffersKeepaliveNodelay ==
    C3_Case =>
        /\ Names(calls) =
               <<"SO_SNDBUF", "SO_RCVBUF">>
               \o (IF "SO_KEEPALIVE" \in call.have
                   THEN <<"SO_KEEPALIVE">> ELSE <<>>)
               \o (IF "TCP_NODELAY" \in call.have
                   THEN <<"TCP_NODELAY">> ELSE <<>>)
        /\ \A i \in 1..Len(calls) : calls[i].val = StoreValue(calls[i].name)
        /\ (call.have = Knobs => Len(calls) = 4)
        /\ (("TCP_NODELAY" \in call.have /\ "SO_KEEPALIVE" \notin call.have)
               => Len(calls) = 3)

\* The case on a build with every knob: four calls, keep-alive among them.
C3_Witness ==
    /\ C3_Case
    /\ call.have = Knobs
    /\ Names(calls) = <<"SO_SNDBUF", "SO_RCVBUF", "SO_KEEPALIVE", "TCP_NODELAY">>

(***************************************************************************)
(* The option set.                                                         *)
(***************************************************************************)
\* A setopt step handed an int that is outside the domain of the field.
C4_Step ==
    (/\ call'.op = "setopt"
     /\ call'.option \in KnownOptions
     /\ call'.optvallen = SizeofInt
     /\ ~InDomain(call'.option, call'.val))
        => (rc' = 0 - EINVAL /\ optset' = optset)

\* C4: setopt with an int outside the field's domain (nodelay: anything but
\* 0 and 1; keepidle, keepintvl, keepcnt: 0 and every negative value, -1
\* included) returns -EINVAL and leaves the four fields as they were.
C4_OutOfDomainRejected == [][C4_Step]_vars

\* An explicit -1 for keepidle is refused and the value set before stays.
C4_Witness ==
    /\ call.op = "setopt"
    /\ call.option = "NN_TCP_KEEPIDLE"
    /\ call.optvallen = SizeofInt
    /\ call.val = -1
    /\ rc = 0 - EINVAL
    /\ optset.keepidle > 0

\* A setopt step handed an int of the field's domain stores it, there only.
C5_SetStep ==
    (/\ call'.op = "setopt"
     /\ call'.option \in KnownOptions
     /\ call'.optvallen = SizeofInt
     /\ InDomain(call'.option, call'.val))
        => (rc' = 0 /\ optset' = WithField(optset, call'.option, call'.val))

\* A getopt with room for an int returns the value of the last setopt on
\* that option that succeeded, if there was one.
C5_GetReturnsLastSet ==
    (/\ call.op = "getopt"
     /\ call.option \in KnownOptions
     /\ call.optvallen >= SizeofInt
     /\ hist.ok[call.option].set)
        => (/\ rc = 0
            /\ outlen = SizeofInt
            /\ BytesInt(outval) = hist.ok[call.option].val)

\* C5: setopt of an in-domain int succeeds and changes the named field
\* only; a later getopt of that option, with room for an int, returns that
\* value, whatever setopt calls on other options or failed setopt calls
\* came in between.
C5_SetThenGet == [][C5_SetStep]_vars /\ []C5_GetReturnsLastSet

\* keepintvl reads back as the multi-byte value set, while keepidle was
\* set to another value.
C5_Witness ==
    /\ call.op = "getopt"
    /\ call.option = "NN_TCP_KEEPINTVL"
    /\ call.optvallen >= SizeofInt
    /\ hist.ok["NN_TCP_KEEPINTVL"].set
    /\ hist.ok["NN_TCP_KEEPINTVL"].val = 16909060
    /\ BytesInt(outval) = 16909060
    /\ hist.ok["NN_TCP_KEEPIDLE"].set
    /\ optset.keepidle = 1

\* A setopt step handed a buffer that has not the length of an int.
C6_Step ==
    (call'.op = "setopt" /\ call'.optvallen # SizeofInt)
        => (rc' = 0 - EINVAL /\ optset' = optset)

\* C6: setopt with a length other than the width of an int returns -EINVAL
\* and changes nothing, whatever the bytes are and whatever the option
\* identifier is, an unknown one included.
C6_WrongLengthRejected == [][C6_Step]_vars

\* An unknown identifier with a buffer longer than an int: -EINVAL.
C6_Witness ==
    /\ call.op = "setopt"
    /\ call.option = "NN_OTHER"
    /\ call.optvallen > SizeofInt
    /\ BytesInt(call.optval) = 1
    /\ rc = 0 - EINVAL

\* A setopt (with the length of an int) or getopt step on an identifier
\* that is none of the four.
C7_Step ==
    /\ (/\ call'.op = "setopt"
        /\ call'.option \notin KnownOptions
        /\ call'.optvallen = SizeofInt)
           => (rc' = 0 - ENOPROTOOPT /\ optset' = optset)
    /\ (call'.op = "getopt" /\ call'.option \notin KnownOptions)
           => (/\ rc' = 0 - ENOPROTOOPT
               /\ optset' = optset
               /\ outval' = call'.optval
               /\ outlen' = call'.optvallen)

\* C7: setopt and getopt on an unknown identifier return -ENOPROTOOPT and
\* change no field; getopt leaves the destination and *optvallen alone.
C7_UnknownOption == [][C7_Step]_vars

\* getopt on an unknown identifier: the destination is as handed in.
C7_Witness ==
    /\ call.op = "getopt"
    /\ call.option = "NN_OTHER"
    /\ call.optvallen = SizeofInt
    /\ rc = 0 - ENOPROTOOPT
    /\ outval = Garbage(SizeofInt)
    /\ outlen = SizeofInt

\* C8: a created option set holds nodelay = 0 and keepidle = keepintvl =
\* keepcnt = -1, whatever the memory it is made in held, and as long as no
\* setopt was called getopt returns these values.
C8_Defaults ==
    /\ call.op = "create" =>
           /\ optset.alive
           /\ \A o \in KnownOptions : Field(optset, o) = DefaultOf(o)
    /\ (/\ call.op = "getopt"
        /\ hist.fresh
        /\ call.option \in KnownOptions
        /\ call.optvallen >= SizeofInt)
           => (rc = 0 /\ BytesInt(outval) = DefaultOf(call.option))

\* getopt on a fresh option set returns keepcnt = -1.
C8_Witness ==
    /\ call.op = "getopt"
    /\ hist.fresh
    /\ call.option = "NN_TCP_KEEPCNT"
    /\ call.optvallen >= SizeofInt
    /\ BytesInt(outval) = -1

\* A getopt step: the destination of c bytes gets the first min(c, 4) bytes
\* of the value and keeps the rest; *optvallen becomes 4.
C9_Step ==
    /\ call'.op = "getopt" => optset' = optset
    /\ (call'.op = "getopt" /\ call'.option \in KnownOptions)
           => (/\ rc' = 0
               /\ outlen' = SizeofInt
               /\ Len(outval') = call'.optvallen
               /\ \A i \in 1..call'.optvallen :
                      outval'[i] =
                          IF i <= Min(call'.optvallen, SizeofInt)
                          THEN IntBytes(Field(optset, call'.option))[i]
                          ELSE call'.optval[i])

\* C9: getopt on a known identifier with a destination of c bytes copies
\* min(c, 4) bytes of the value, succeeds and reports the size 4, also when
\* c < 4; it never changes the stored fields.
C9_TruncatedCopy == [][C9_Step]_vars

\* Two bytes of room: two bytes of 0x01020304 copied, size 4 reported.
C9_Witness ==
    /\ call.op = "getopt"
    /\ call.option = "NN_TCP_KEEPIDLE"
    /\ call.optvallen = 2
    /\ optset.keepidle = 16909060
    /\ rc = 0
    /\ outlen = SizeofInt
    /\ outval \in {<<1, 2>>, <<4, 3>>}

\* The domains of the fields of a live option set, and the history of each
\* tuning field.
C10_Domains ==
    optset.alive =>
        /\ optset.nodelay \in {0, 1}
        /\ \A o \in TuningOptions :
               /\ Field(optset, o) = -1 \/ Field(optset, o) > 0
               /\ (Field(optset, o) = -1) <=> ~hist.ok[o].set
               /\ (Field(optset, o) >= 0) <=> (Field(optset, o) # -1)

\* A tuning field of a live option set that is not -1 does not become -1.
C10_Step ==
    (optset.alive /\ optset'.alive) =>
        \A o \in TuningOptions :
            Field(optset, o) # -1 => Field(optset', o) # -1

\* C10: in every state reachable by setopt calls, nodelay is 0 or 1 and
\* each tuning field is -1 or positive; a tuning field is -1 exactly when no
\* setopt on it has succeeded since creation, and never returns to -1; the
\* test val >= 0 of nn_tcp_set_options selects what the test val # -1 does.
C10_FieldDomains == []C10_Domains /\ [][C10_Step]_vars

\* keepcnt was set, keepintvl was not, and a setopt of 0 for keepcnt has
\* just been refused.
C10_Witness ==
    /\ optset.alive
    /\ call.op = "setopt"
    /\ call.option = "NN_TCP_KEEPCNT"
    /\ call.optvallen = SizeofInt
    /\ call.val = 0
    /\ rc = 0 - EINVAL
    /\ optset.keepcnt > 0
    /\ optset.keepintvl = -1
    /\ hist.ok["NN_TCP_KEEPCNT"].set

====
